---- MODULE Spec2Model ----
(***************************************************************************)
(* Model of the taxonomic name matching pipeline of src/app.py             *)
(* (run_matching_pipeline and its helpers).                                *)
(*                                                                         *)
(* A name is a Python str, modelled as a sequence of one-character         *)
(* strings.  The remote OTT TNRS service is the environment: every call    *)
(* may fail (None), return a body without 'results', or return, for any    *)
(* subset of the queried strings, a ranked list of candidate taxa.         *)
(*                                                                         *)
(* Of the eight ledger columns, 'Synonyms', 'Approximate Match' and        *)
(* 'Is Synonym Input' are copied from the candidate and never read by the  *)
(* pipeline; the model carries the other five.                             *)
(***************************************************************************)
EXTENDS Integers, Sequences, FiniteSets, TLC

(***************************************************************************)
(* Characters and strings                                                  *)
(***************************************************************************)

Upper ==
  {"A","B","C","D","E","F","G","H","I","J","K","L","M",
   "N","O","P","Q","R","S","T","U","V","W","X","Y","Z"}

Lower ==
  {"a","b","c","d","e","f","g","h","i","j","k","l","m",
   "n","o","p","q","r","s","t","u","v","w","x","y","z"}

\* The characters matched by \s and removed by str.strip().
Whitespace ==
  {" ", "\t", "\n"}

\* Python's None where a str could stand.
NoneName ==
  <<"None">>

\* Python truthiness of an optional str: neither None nor ''.
Truthy(s) ==
  s # NoneName /\ s # <<>>

RECURSIVE LStrip(_)
LStrip(s) ==
  IF s # <<>> /\ Head(s) \in Whitespace THEN LStrip(Tail(s)) ELSE s

RECURSIVE RStrip(_)
RStrip(s) ==
  IF s # <<>> /\ s[Len(s)] \in Whitespace
  THEN RStrip(SubSeq(s, 1, Len(s) - 1))
  ELSE s

\* str.strip()
Strip(s) ==
  LStrip(RStrip(s))

\* str.lower() on the characters the model uses.
LowerChar(c) ==
  CASE c = "A" -> "a" [] c = "B" -> "b" [] c = "C" -> "c" [] c = "D" -> "d"
    [] c = "E" -> "e" [] c = "F" -> "f" [] c = "G" -> "g" [] c = "H" -> "h"
    [] c = "I" -> "i" [] c = "J" -> "j" [] c = "K" -> "k" [] c = "L" -> "l"
    [] c = "M" -> "m" [] c = "N" -> "n" [] c = "O" -> "o" [] c = "P" -> "p"
    [] c = "Q" -> "q" [] c = "R" -> "r" [] c = "S" -> "s" [] c = "T" -> "t"
    [] c = "U" -> "u" [] c = "V" -> "v" [] c = "W" -> "w" [] c = "X" -> "x"
    [] c = "Y" -> "y" [] c = "Z" -> "z" [] OTHER -> c

StrLower(s) ==
  [k \in 1..Len(s) |-> LowerChar(s[k])]

\* Variant of IsAuthority: only the two listed authority tokens are matched.
IsAuthorityListed(t) ==
  \/ t = <<"M","o","e","n","c","h">>
  \/ t = <<"L",".">>

\* The regex alternative ([A-Z][a-z]*\.?|Moench|L\.) matched against a whole
\* token t.
IsAuthority(t) ==
  \/ /\ Len(t) >= 1
     /\ t[1] \in Upper
     /\ \E dot \in {0, 1} :
          /\ Len(t) >= 1 + dot
          /\ dot = 1 => t[Len(t)] = "."
          /\ \A k \in 2..(Len(t) - dot) : t[k] \in Lower
  \/ t = <<"M","o","e","n","c","h">>
  \/ t = <<"L",".">>

\* Index of the last whitespace character of s, 0 when there is none.
LastWhitespace(s) ==
  IF \E k \in 1..Len(s) : s[k] \in Whitespace
  THEN CHOOSE k \in 1..Len(s) :
         /\ s[k] \in Whitespace
         /\ \A j \in (k + 1)..Len(s) : s[j] \notin Whitespace
  ELSE 0

\* re.sub(r'\s+([A-Z][a-z]*\.?|Moench|L\.)$', '', s): the only possible match
\* is the last whitespace run followed by the last token, up to the end of s.
SubAuthority(s) ==
  LET w == LastWhitespace(s)
      token == SubSeq(s, w + 1, Len(s))
  IN IF w # 0 /\ IsAuthority(token)
     THEN RStrip(SubSeq(s, 1, w))
     ELSE s

\* clean_scientific_name(name) for a str argument
clean_scientific_name(name) ==
  Strip(SubAuthority(Strip(name)))

\* extract_genus(name) for a str argument: name.split(' ', 1)[0]
extract_genus(name) ==
  IF \A k \in 1..Len(name) : name[k] # " "
  THEN NoneName
  ELSE LET sp == CHOOSE k \in 1..Len(name) :
                   /\ name[k] = " "
                   /\ \A j \in 1..(k - 1) : name[j] # " "
       IN SubSeq(name, 1, sp - 1)

(***************************************************************************)
(* Values                                                                  *)
(***************************************************************************)

\* Python's None in a ledger column or a candidate field.
None ==
  "None"

SpeciesOriginal ==
  "Species - Original"

SpeciesCleaned ==
  "Species - Cleaned"

Genus ==
  "Genus"

NoMatchInitial ==
  "No Match Initial"

NoMatchFinal ==
  "No Match Final"

GenusFailed ==
  "No Match Final - Genus Failed"

ProcessingError ==
  "Processing Error"

\* The ranks the genus tier accepts (the list literal of the rank test).
GenusTierRanks ==
  { <<"g","e","n","u","s">>, <<"f","a","m","i","l","y">>,
    <<"o","r","d","e","r">>, <<"c","l","a","s","s">>,
    <<"p","h","y","l","u","m">>, <<"k","i","n","g","d","o","m">> }

(***************************************************************************)
(* Inputs: the cells of the name column, the tables, the candidate taxa    *)
(***************************************************************************)

QuercusAlbaL ==
  <<"Q","u","e","r","c","u","s"," ","a","l","b","a"," ","L",".">>

QuercusAlbaMoench ==
  <<"Q","u","e","r","c","u","s"," ","a","l","b","a"," ","M","o","e","n","c","h">>

FabaceaeIndet ==
  <<"F","a","b","a","c","e","a","e"," ","I","n","d","e","t",".">>

Rosa ==
  <<"R","o","s","a">>

QuercusAlba ==
  <<"Q","u","e","r","c","u","s"," ","a","l","b","a">>

Fabaceae ==
  <<"F","a","b","a","c","e","a","e">>

Quercus ==
  <<"Q","u","e","r","c","u","s">>

\* What astype(str) leaves in the cell of a missing value.
NanCell ==
  <<"n","a","n">>

EmptyCell ==
  <<>>

\* The values a cell of the name column is drawn from.
CellPool ==
  {QuercusAlbaL, QuercusAlbaMoench, FabaceaeIndet, Rosa, NanCell, EmptyCell}

Range(f) ==
  { f[k] : k \in DOMAIN f }

\* Largest number of rows of an input table.
MaxRows ==
  3

\* Largest batch_size the caller passes.
MaxBatchSize ==
  2

\* Largest number of distinct usable names of an input table.
MaxDistinct ==
  2

Tables ==
  { t \in UNION { [1..n -> CellPool] : n \in 0..MaxRows } :
      Cardinality(Range(t) \ {NanCell, EmptyCell}) <= MaxDistinct }

\* Candidate taxa of the service: a species with an id, a family with an id,
\* and a genus whose 'ott_id' key is absent and whose rank is capitalised.
TaxSpecies ==
  [unique_name |-> QuercusAlba, ott_id |-> "791112",
   rank |-> <<"s","p","e","c","i","e","s">>]

TaxFamily ==
  [unique_name |-> Fabaceae, ott_id |-> "560323",
   rank |-> <<"f","a","m","i","l","y">>]

TaxGenusNoId ==
  [unique_name |-> Quercus, ott_id |-> None,
   rank |-> <<"G","e","n","u","s">>]

\* The ranked candidate lists ('matches') the service answers a query with.
MatchLists ==
  { <<>>, <<TaxSpecies>>, <<TaxFamily, TaxSpecies>>, <<TaxGenusNoId>> }

\* All orders in which the elements of a set can be listed.
Orders(S) ==
  { q \in [1..Cardinality(S) -> S] : Range(q) = S }

\* A parsed response body: one item per answered query string, in the order
\* of the request.
Body(names, f) ==
  LET kept == SelectSeq(names, LAMBDA n : n \in DOMAIN f)
  IN [kind |-> "ok",
      results |-> [k \in 1..Len(kept) |->
                     [name |-> kept[k], matches |-> f[kept[k]]]]]

\* query_ott_tnrs returned None (request or JSON decoding failed).
NoResponse ==
  [kind |-> "none", results |-> <<>>]

\* A JSON body without the 'results' key.
NoResultsKey ==
  [kind |-> "no_results_key", results |-> <<>>]

\* Everything query_ott_tnrs(names) can return.
Responses(names) ==
  {NoResponse, NoResultsKey} \cup
  UNION { { Body(names, f) : f \in [A -> MatchLists] } :
          A \in SUBSET Range(names) }

\* not api_response or 'results' not in api_response
Invalid(api_response) ==
  api_response.kind # "ok"

(***************************************************************************)
(* The ledger (all_results) and process_tnrs_results                       *)
(***************************************************************************)

\* results_dict[key] = rec
DictSet(dict, key, rec) ==
  [k \in DOMAIN dict \cup {key} |-> IF k = key THEN rec ELSE dict[k]]

\* results_dict[key]['Match Level'] = level
SetLevel(dict, key, level) ==
  [dict EXCEPT ![key] = [@ EXCEPT !.match_level = level]]

\* The record built from the first match of an item.
MatchRecord(taxon, query, level) ==
  [primary |-> taxon.unique_name, ott_id |-> taxon.ott_id, rank |-> taxon.rank,
   match_query |-> query, match_level |-> level]

\* The placeholder record of a name with no candidate.
EmptyRecord(query, level) ==
  [primary |-> NoneName, ott_id |-> None, rank |-> NoneName,
   match_query |-> query, match_level |-> level]

\* 'OTT ID' is None, or no record at all
Unmatched(dict, name) ==
  name \notin DOMAIN dict \/ dict[name].ott_id = None

\* Variant of ProcessItem: 'Match Query' holds target_name.
ProcessItemTarget(item, dict, match_level, query_map) ==
  LET original_query_name == item.name
      target_name == IF original_query_name \in DOMAIN query_map
                     THEN query_map[original_query_name]
                     ELSE original_query_name
  IN IF Unmatched(dict, target_name)
     THEN IF item.matches # <<>>
          THEN DictSet(dict, target_name,
                       MatchRecord(item.matches[1], target_name, match_level))
          ELSE IF match_level = SpeciesOriginal /\ target_name \notin DOMAIN dict
               THEN DictSet(dict, target_name,
                            EmptyRecord(original_query_name, NoMatchInitial))
               ELSE dict
     ELSE dict

\* One iteration of the loop over api_response['results'].
ProcessItem(item, dict, match_level, query_map) ==
  LET original_query_name == item.name
      target_name == IF original_query_name \in DOMAIN query_map
                     THEN query_map[original_query_name]
                     ELSE original_query_name
  IN IF Unmatched(dict, target_name)
     THEN IF item.matches # <<>>
          THEN DictSet(dict, target_name,
                       MatchRecord(item.matches[1], original_query_name, match_level))
          ELSE IF match_level = SpeciesOriginal /\ target_name \notin DOMAIN dict
               THEN DictSet(dict, target_name,
                            EmptyRecord(original_query_name, NoMatchInitial))
               ELSE dict
     ELSE dict

RECURSIVE ProcessItems(_, _, _, _)
ProcessItems(items, dict, match_level, query_map) ==
  IF items = <<>>
  THEN dict
  ELSE ProcessItems(Tail(items),
                    ProcessItem(Head(items), dict, match_level, query_map),
                    match_level, query_map)

\* Variant of process_tnrs_results: an invalid response empties the ledger.
process_tnrs_results_reset(api_response, results_dict, match_level, query_map) ==
  IF Invalid(api_response)
  THEN [k \in {} |-> EmptyRecord(<<>>, NoMatchInitial)]
  ELSE ProcessItems(api_response.results, results_dict, match_level, query_map)

\* process_tnrs_results; query_map is the empty function when absent.
process_tnrs_results(api_response, results_dict, match_level, query_map) ==
  IF Invalid(api_response)
  THEN results_dict
  ELSE ProcessItems(api_response.results, results_dict, match_level, query_map)

(***************************************************************************)
(* Pieces of run_matching_pipeline                                         *)
(***************************************************************************)

\* Elements of seq in order of first appearance (Series.unique()).
RECURSIVE Unique(_)
Unique(seq) ==
  IF seq = <<>>
  THEN <<>>
  ELSE LET init == SubSeq(seq, 1, Len(seq) - 1)
           last == seq[Len(seq)]
       IN IF last \in Range(init) THEN Unique(init) ELSE Append(Unique(init), last)

\* Variant of UniqueNames: without the filter on empty and 'nan' values.
UniqueNamesUnfiltered(column) ==
  Unique([k \in 1..Len(column) |->
            IF column[k] = NanCell THEN EmptyCell ELSE column[k]])

\* The distinct usable names of the column: 'nan' replaced by '', distinct
\* values, then the empty and 'nan' (in any case) ones filtered out.
UniqueNames(column) ==
  LET replaced == [k \in 1..Len(column) |->
                     IF column[k] = NanCell THEN EmptyCell ELSE column[k]]
  IN SelectSeq(Unique(replaced),
               LAMBDA name : Truthy(name) /\ StrLower(name) # NanCell)

\* Variant of StillFailed: the list is not filtered.
StillFailedAll(names, dict) ==
  names

\* The names of a list that have no record or a record without an id.
StillFailed(names, dict) ==
  SelectSeq(names, LAMBDA name : Unmatched(dict, name))

\* The failed names whose cleaned form is usable and differs from the name.
Cleanable(failed) ==
  SelectSeq(failed, LAMBDA name :
              /\ Truthy(clean_scientific_name(name))
              /\ clean_scientific_name(name) # name)

\* cleaned_names_map: cleaned string -> the LAST failed name that cleans to it
\* (each assignment cleaned_names_map[cleaned] = name overwrites the previous).
CleanedNamesMap(failed) ==
  LET cl == Cleanable(failed)
  IN [c \in { clean_scientific_name(cl[k]) : k \in 1..Len(cl) } |->
        cl[CHOOSE k \in 1..Len(cl) :
             /\ clean_scientific_name(cl[k]) = c
             /\ \A j \in (k + 1)..Len(cl) : clean_scientific_name(cl[j]) # c]]

\* The failed names a genus can be extracted from.
WithGenus(failed) ==
  SelectSeq(failed, LAMBDA name : Truthy(extract_genus(name)))

\* Variant of GeneraToQuery: without the test "genus not in genera_to_query".
GeneraToQueryRepeated(failed) ==
  LET wg == WithGenus(failed)
  IN [k \in 1..Len(wg) |-> extract_genus(wg[k])]

\* genera_to_query: the genera in order of first appearance.
GeneraToQuery(failed) ==
  LET wg == WithGenus(failed)
  IN Unique([k \in 1..Len(wg) |-> extract_genus(wg[k])])

\* Variant of GenusMap: genus_map[genus] = name, the last name per genus.
GenusMapLast(failed) ==
  [g \in Range(GeneraToQuery(failed)) |->
     LET l == SelectSeq(failed, LAMBDA name : extract_genus(name) = g)
     IN << l[Len(l)] >>]

\* genus_map: genus -> the list of failed names with that genus.
GenusMap(failed) ==
  [g \in Range(GeneraToQuery(failed)) |->
     SelectSeq(failed, LAMBDA name : extract_genus(name) = g)]

\* Variant of PassesRankGate: 'species' is in the accepted list.
PassesRankGateSpecies(taxon) ==
  LET rank == IF taxon.rank = NoneName THEN <<>> ELSE StrLower(taxon.rank)
  IN rank \in GenusTierRanks \cup { <<"s","p","e","c","i","e","s">> }

\* taxon.get('rank', '').lower() in [...]
PassesRankGate(taxon) ==
  LET rank == IF taxon.rank = NoneName THEN <<>> ELSE StrLower(taxon.rank)
  IN rank \in GenusTierRanks

\* The body of "for target_name in original_names_for_genus".
GenusTarget(dict, item, target_name) ==
  IF dict[target_name].ott_id = None
  THEN IF item.matches # <<>>
       THEN IF PassesRankGate(item.matches[1])
            THEN DictSet(dict, target_name,
                         MatchRecord(item.matches[1], item.name, Genus))
            ELSE dict
       ELSE SetLevel(dict, target_name, GenusFailed)
  ELSE dict

RECURSIVE GenusTargets(_, _, _)
GenusTargets(dict, item, targets) ==
  IF targets = <<>>
  THEN dict
  ELSE GenusTargets(GenusTarget(dict, item, Head(targets)), item, Tail(targets))

\* The loop over genus_result_data['results'].
RECURSIVE GenusItems(_, _, _)
GenusItems(items, dict, genus_map) ==
  IF items = <<>>
  THEN dict
  ELSE LET item == Head(items)
           next == IF item.name \in DOMAIN genus_map
                   THEN GenusTargets(dict, item, genus_map[item.name])
                   ELSE dict
       IN GenusItems(Tail(items), next, genus_map)

\* if genus_result_data and 'results' in genus_result_data: ...
ProcessGenusResults(api_response, dict, genus_map) ==
  IF Invalid(api_response)
  THEN dict
  ELSE GenusItems(api_response.results, dict, genus_map)

\* The names the end of step 3 relabels: those still without an id.
Step3Failed(failed, dict) ==
  StillFailed(failed, dict)

\* Variant of Step3Relabel: the loop runs over every record of the ledger.
Step3RelabelAll(failed, dict) ==
  [k \in DOMAIN dict |->
     IF dict[k].match_level \notin {Genus, GenusFailed}
     THEN [dict[k] EXCEPT !.match_level = NoMatchFinal]
     ELSE dict[k]]

\* Variant of Step3Relabel: the label written is misspelt.
Step3RelabelTypo(failed, dict) ==
  LET still == Range(StillFailed(failed, dict))
  IN [k \in DOMAIN dict |->
        IF k \in still /\ dict[k].match_level \notin {Genus, GenusFailed}
        THEN [dict[k] EXCEPT !.match_level = "No Match"]
        ELSE dict[k]]

\* The relabelling loop that ends step 3.
Step3Relabel(failed, dict) ==
  LET still == Range(Step3Failed(failed, dict))
  IN [k \in DOMAIN dict |->
        IF k \in still /\ dict[k].match_level \notin {Genus, GenusFailed}
        THEN [dict[k] EXCEPT !.match_level = NoMatchFinal]
        ELSE dict[k]]

\* The loop over unique_names before the merge.
FinalizeRecords(names, dict) ==
  [k \in DOMAIN dict \cup Range(names) |->
     IF k \notin Range(names) THEN dict[k]
     ELSE IF k \notin DOMAIN dict THEN EmptyRecord(k, ProcessingError)
     ELSE IF dict[k].ott_id = None /\ dict[k].match_level = NoMatchInitial
          THEN [dict[k] EXCEPT !.match_level = NoMatchFinal]
          ELSE dict[k]]

RECURSIVE SetToSeq(_)
SetToSeq(S) ==
  IF S = {}
  THEN <<>>
  ELSE LET x == CHOOSE x \in S : TRUE
       IN <<x>> \o SetToSeq(S \ {x})

\* pd.DataFrame.from_dict(all_results, orient='index') with the index as the
\* column 'Scientific Name_original_lookup'.
ResultsDf(dict) ==
  LET keys == SetToSeq(DOMAIN dict)
  IN [k \in 1..Len(keys) |-> [lookup |-> keys[k], rec |-> dict[keys[k]]]]

\* The resolution columns of a row that found no record in the join.
NullRecord ==
  [primary |-> NoneName, ott_id |-> None, rank |-> NoneName,
   match_query |-> NoneName, match_level |-> None]

\* Variant of JoinRow: an inner join, a row without a record is dropped.
JoinRowInner(left, r, right) ==
  LET found == SelectSeq(right, LAMBDA x : x.lookup = left[r])
  IN [k \in 1..Len(found) |->
        [row |-> r, name |-> left[r], rec |-> found[k].rec]]

\* The rows a left join emits for row number r of the left table.
JoinRow(left, r, right) ==
  LET found == SelectSeq(right, LAMBDA x : x.lookup = left[r])
  IN IF found = <<>>
     THEN << [row |-> r, name |-> left[r], rec |-> NullRecord] >>
     ELSE [k \in 1..Len(found) |->
             [row |-> r, name |-> left[r], rec |-> found[k].rec]]

\* pd.merge(df, results_df, left_on=column_name, right_on=..., how='left')
RECURSIVE Merge(_, _, _)
Merge(left, n, right) ==
  IF n = 0 THEN <<>> ELSE Merge(left, n - 1, right) \o JoinRow(left, n, right)

\* Variant of ValueCounts: value_counts() with its default dropna=True.
ValueCountsDropNa(rows) ==
  [l \in { rows[k].rec.match_level : k \in 1..Len(rows) } \ {None} |->
     Cardinality({ k \in 1..Len(rows) : rows[k].rec.match_level = l })]

\* df_merged['Match Level'].value_counts(dropna=False)
ValueCounts(rows) ==
  [l \in { rows[k].rec.match_level : k \in 1..Len(rows) } |->
     Cardinality({ k \in 1..Len(rows) : rows[k].rec.match_level = l })]

(***************************************************************************)
(* State                                                                   *)
(***************************************************************************)

VARIABLES
  df,              \* the name column of the input table, one cell per row
  column_present,  \* column_name in df.columns
  batch_size,
  pc,              \* where run_matching_pipeline stands
  unique_names,
  i,               \* the loop variable of step 1
  all_results,     \* the ledger: name -> record
  failed_names,
  calls,           \* history: every call of query_ott_tnrs so far
  matched1,        \* history: the names holding an id when step 1 ended
  matched2,        \* history: the names holding an id when step 2 ended
  last_result,     \* what the latest call of query_ott_tnrs returned
  scripted,        \* history: every call so far was answered by ScriptedBody
  df_merged,       \* the returned table, <<>> before it exists
  summary          \* the returned tier counts

vars ==
  <<df, column_present, batch_size, pc, unique_names, i, all_results,
    failed_names, calls, matched1, matched2, last_result, scripted, df_merged,
    summary>>

EmptyDict ==
  [k \in {} |-> NullRecord]

\* The names of a ledger that hold an id.
Matched(dict) ==
  { k \in DOMAIN dict : dict[k].ott_id # None }

\* The entry the history keeps of a call: the tier, the strings sent, and
\* whether a usable body came back.
Call(tier, names, result) ==
  [tier |-> tier, names |-> names, ok |-> ~Invalid(result)]

\* The service of the end-to-end scenario: no candidate for a raw string, a
\* species hit for 'Quercus alba', a family-rank best hit for 'Fabaceae'.
ScriptedAnswer(query) ==
  IF query = QuercusAlba THEN <<TaxSpecies>>
  ELSE IF query = Fabaceae THEN <<TaxFamily, TaxSpecies>>
  ELSE <<>>

ScriptedBody(names) ==
  Body(names, [q \in Range(names) |-> ScriptedAnswer(q)])

Init ==
  /\ df \in Tables
  /\ column_present \in BOOLEAN
  /\ batch_size \in 1..MaxBatchSize
  /\ pc = "start"
  /\ unique_names = <<>>
  /\ i = 0
  /\ all_results = EmptyDict
  /\ failed_names = <<>>
  /\ calls = <<>>
  /\ matched1 = {}
  /\ matched2 = {}
  /\ last_result = NoResponse
  /\ scripted = TRUE
  /\ df_merged = <<>>
  /\ summary = <<>>

(***************************************************************************)
(* Steps of run_matching_pipeline                                          *)
(***************************************************************************)

\* Variant of LoadNames: without the test "if not unique_names".
LoadNamesUnchecked ==
  /\ pc = "start"
  /\ IF ~column_present
     THEN pc' = "config_error" /\ UNCHANGED unique_names
     ELSE /\ unique_names' = UniqueNames(df)
          /\ pc' = "step1"
  /\ UNCHANGED <<df, column_present, batch_size, i, all_results, failed_names,
                 calls, matched1, matched2, last_result, scripted, df_merged,
                 summary>>

\* Load Data & Unique Names: the column test and the usable distinct names.
LoadNames ==
  /\ pc = "start"
  /\ IF ~column_present
     THEN pc' = "config_error" /\ UNCHANGED unique_names
     ELSE /\ unique_names' = UniqueNames(df)
          /\ pc' = IF unique_names' = <<>> THEN "config_error" ELSE "step1"
  /\ UNCHANGED <<df, column_present, batch_size, i, all_results, failed_names,
                 calls, matched1, matched2, last_result, scripted, df_merged,
                 summary>>

\* unique_names[i:i+batch_size]
Batch(names, from, size) ==
  SubSeq(names, from + 1,
         IF from + size < Len(names) THEN from + size ELSE Len(names))

\* Variant of OriginalBatch: an invalid response ends the run.
OriginalBatchAbort ==
  /\ pc = "step1"
  /\ i < Len(unique_names)
  /\ \E batch \in {Batch(unique_names, i, batch_size)} :
       \E batch_result_data \in Responses(batch) :
         /\ calls' = Append(calls, Call("Original", batch, batch_result_data))
         /\ last_result' = batch_result_data
         /\ scripted' = (scripted /\ batch_result_data = ScriptedBody(batch))
         /\ all_results' = process_tnrs_results(batch_result_data, all_results,
                                                SpeciesOriginal, <<>>)
         /\ pc' = IF Invalid(batch_result_data) THEN "aborted" ELSE pc
  /\ i' = i + batch_size
  /\ UNCHANGED <<df, column_present, batch_size, unique_names, failed_names,
                 matched1, matched2, df_merged, summary>>

\* One iteration of the step 1 loop: query a batch of original names and
\* process what came back.
OriginalBatch ==
  /\ pc = "step1"
  /\ i < Len(unique_names)
  /\ \E batch \in {Batch(unique_names, i, batch_size)} :
       \E batch_result_data \in Responses(batch) :
         /\ calls' = Append(calls, Call("Original", batch, batch_result_data))
         /\ last_result' = batch_result_data
         /\ scripted' = (scripted /\ batch_result_data = ScriptedBody(batch))
         /\ all_results' = process_tnrs_results(batch_result_data, all_results,
                                                SpeciesOriginal, <<>>)
  /\ i' = i + batch_size
  /\ UNCHANGED <<df, column_present, batch_size, pc, unique_names, failed_names,
                 matched1, matched2, df_merged, summary>>

\* The end of step 2: failed_names is filtered by all_results[name], which
\* raises KeyError for a name without a record.
Step2End(failed, dict) ==
  IF \E k \in 1..Len(failed) : failed[k] \notin DOMAIN dict
  THEN /\ pc' = "crashed"
       /\ failed_names' = failed
       /\ matched2' = matched2
  ELSE /\ pc' = "step3"
       /\ failed_names' = StillFailed(failed, dict)
       /\ matched2' = Matched(dict)

\* Step 1 left no failure: step 2 has nothing to do.
Step2Skip ==
  /\ pc = "step1"
  /\ i >= Len(unique_names)
  /\ StillFailed(unique_names, all_results) = <<>>
  /\ matched1' = Matched(all_results)
  /\ matched2' = Matched(all_results)
  /\ failed_names' = <<>>
  /\ pc' = "step3"
  /\ UNCHANGED <<df, column_present, batch_size, unique_names, i, all_results,
                 calls, last_result, scripted, df_merged, summary>>

\* Step 2 when cleaning changes none of the failed names: no call.
Step2NoQuery ==
  /\ pc = "step1"
  /\ i >= Len(unique_names)
  /\ \E failed \in {StillFailed(unique_names, all_results)} :
       /\ failed # <<>>
       /\ Cleanable(failed) = <<>>
       /\ Step2End(failed, all_results)
  /\ matched1' = Matched(all_results)
  /\ UNCHANGED <<df, column_present, batch_size, unique_names, i, all_results,
                 calls, last_result, scripted, df_merged, summary>>

\* Variant of Step2Query: step 2 sits inside the step 1 loop, so it runs after
\* the first batch.
Step2QueryEarly ==
  /\ pc = "step1"
  /\ i > 0
  /\ \E failed \in {StillFailed(unique_names, all_results)} :
       \E cleaned_names_map \in {CleanedNamesMap(failed)} :
         /\ failed # <<>>
         /\ DOMAIN cleaned_names_map # {}
         /\ \E names \in Orders(DOMAIN cleaned_names_map) :
              \E cleaned_result_data \in Responses(names) :
                /\ calls' = Append(calls,
                                   Call("Cleaned", names, cleaned_result_data))
                /\ last_result' = cleaned_result_data
                /\ scripted' = (scripted /\ cleaned_result_data = ScriptedBody(names))
                /\ all_results' = process_tnrs_results(cleaned_result_data,
                                     all_results, SpeciesCleaned, cleaned_names_map)
                /\ Step2End(failed, all_results')
  /\ matched1' = Matched(all_results)
  /\ UNCHANGED <<df, column_present, batch_size, unique_names, i, df_merged,
                 summary>>

\* Step 2: one call with the distinct cleaned names, in the order list(set())
\* happens to give them.
Step2Query ==
  /\ pc = "step1"
  /\ i >= Len(unique_names)
  /\ \E failed \in {StillFailed(unique_names, all_results)} :
       \E cleaned_names_map \in {CleanedNamesMap(failed)} :
         /\ failed # <<>>
         /\ DOMAIN cleaned_names_map # {}
         /\ \E names \in Orders(DOMAIN cleaned_names_map) :
              \E cleaned_result_data \in Responses(names) :
                /\ calls' = Append(calls,
                                   Call("Cleaned", names, cleaned_result_data))
                /\ last_result' = cleaned_result_data
                /\ scripted' = (scripted /\ cleaned_result_data = ScriptedBody(names))
                /\ all_results' = process_tnrs_results(cleaned_result_data,
                                     all_results, SpeciesCleaned, cleaned_names_map)
                /\ Step2End(failed, all_results')
  /\ matched1' = Matched(all_results)
  /\ UNCHANGED <<df, column_present, batch_size, unique_names, i, df_merged,
                 summary>>

\* Step 2 left no failure: step 3 has nothing to do.
Step3Skip ==
  /\ pc = "step3"
  /\ failed_names = <<>>
  /\ pc' = "finalize"
  /\ UNCHANGED <<df, column_present, batch_size, unique_names, i, all_results,
                 failed_names, calls, matched1, matched2, last_result, scripted,
                 df_merged, summary>>

\* Step 3 when no genus can be extracted: no call, only the relabelling.
Step3NoQuery ==
  /\ pc = "step3"
  /\ failed_names # <<>>
  /\ GeneraToQuery(failed_names) = <<>>
  /\ all_results' = Step3Relabel(failed_names, all_results)
  /\ failed_names' = Step3Failed(failed_names, all_results)
  /\ pc' = "finalize"
  /\ UNCHANGED <<df, column_present, batch_size, unique_names, i, calls,
                 matched1, matched2, last_result, scripted, df_merged, summary>>

\* Step 3: one call with the genera, then the relabelling.
Step3Query ==
  /\ pc = "step3"
  /\ failed_names # <<>>
  /\ \E genera_to_query \in {GeneraToQuery(failed_names)} :
       /\ genera_to_query # <<>>
       /\ \E genus_map \in {GenusMap(failed_names)} :
            \E genus_result_data \in Responses(genera_to_query) :
              \E dict \in {ProcessGenusResults(genus_result_data, all_results,
                                                genus_map)} :
                /\ calls' = Append(calls, Call("Genera", genera_to_query,
                                               genus_result_data))
                /\ last_result' = genus_result_data
                /\ scripted' = (scripted /\ genus_result_data =
                                               ScriptedBody(genera_to_query))
                /\ all_results' = Step3Relabel(failed_names, dict)
                /\ failed_names' = Step3Failed(failed_names, dict)
  /\ pc' = "finalize"
  /\ UNCHANGED <<df, column_present, batch_size, unique_names, i, matched1,
                 matched2, df_merged, summary>>

\* Create Results DataFrame and Merge.
Finalize ==
  /\ pc = "finalize"
  /\ IF DOMAIN all_results = {}
     THEN /\ pc' = "no_results"
          /\ UNCHANGED <<all_results, df_merged, summary>>
     ELSE /\ all_results' = FinalizeRecords(unique_names, all_results)
          /\ df_merged' = Merge(df, Len(df), ResultsDf(all_results'))
          /\ summary' = ValueCounts(df_merged')
          /\ pc' = "done"
  /\ UNCHANGED <<df, column_present, batch_size, unique_names, i, failed_names,
                 calls, matched1, matched2, last_result, scripted>>

Next ==
  \/ LoadNames
  \/ OriginalBatch
  \/ Step2Skip
  \/ Step2NoQuery
  \/ Step2Query
  \/ Step3Skip
  \/ Step3NoQuery
  \/ Step3Query
  \/ Finalize

Spec ==
  Init /\ [][Next]_vars

(***************************************************************************)
(* Properties                                                              *)
(***************************************************************************)

Names ==
  Range(unique_names)

\* The calls made so far for one tier.
CallsOf(tier) ==
  { k \in 1..Len(calls) : calls[k].tier = tier }

\* Number of iterations of the step 1 loop: ceil(len(unique_names) / batch_size).
Batches ==
  (Len(unique_names) + batch_size - 1) \div batch_size

\* The steps that follow the step 1 loop.
AfterStep1 ==
  pc \in {"step3", "finalize", "done", "crashed", "no_results"}

LastCallIs(tier) ==
  /\ calls # <<>>
  /\ calls[Len(calls)].tier = tier
  /\ calls[Len(calls)].ok

\* C1: once the record of a name holds an id, no later step (a later batch,
\* the cleaned tier, the genus tier, the relabelling, the merge) changes the
\* id or any other column of that record.
C1_MonotonicResolution ==
  [][\A n \in Matched(all_results) :
       /\ n \in DOMAIN all_results'
       /\ all_results'[n] = all_results[n]]_vars

\* A run that matched a name in step 1 and then went through a cleaned call,
\* a genus call and the merge.
C1_Witness ==
  /\ pc = "done"
  /\ CallsOf("Cleaned") # {}
  /\ CallsOf("Genera") # {}
  /\ \E n \in Names : /\ all_results[n].match_level = SpeciesOriginal
                      /\ all_results[n].ott_id # None

\* C2 as stated: a failed call is the last call of the run, and the run
\* produces no table.
C2_FailedCallAborts ==
  \A k \in 1..Len(calls) :
    ~calls[k].ok => (k = Len(calls) /\ pc # "done")

\* C2 amended: a failed call does not stop the run.  Step 1 issues every one
\* of its batches whether or not earlier ones failed, the later steps follow,
\* and the only way the run ends without a table once step 1 has begun is the
\* KeyError at the end of step 2, raised for a failed name that has no record.
C2_FailedCallContinues ==
  /\ pc = "step1" => Len(calls) * batch_size = i
  /\ AfterStep1 => Cardinality(CallsOf("Original")) = Batches
  /\ pc = "crashed" => \E n \in Range(failed_names) : n \notin DOMAIN all_results
  /\ pc \in {"start", "config_error", "step1", "step3", "finalize", "done",
             "crashed"}

\* A run in which a call failed, another call followed, and the table was
\* produced.
C2_Witness ==
  /\ pc = "done"
  /\ df_merged # <<>>
  /\ \E k \in 1..(Len(calls) - 1) : ~calls[k].ok

\* C3: when step 2 ends, every name left unmatched by step 1 whose cleaned
\* form was answered with at least one candidate holds the first candidate's
\* id with tier 'Species - Cleaned'.
C3_CleanedFanOut ==
  (pc = "step3" /\ LastCallIs("Cleaned")) =>
    \A k \in 1..Len(last_result.results) :
      LET item == last_result.results[k]
      IN item.matches # <<>> =>
           \A n \in Names \ matched1 :
             (clean_scientific_name(n) = item.name /\ item.name # n) =>
               /\ all_results[n].match_level = SpeciesCleaned
               /\ all_results[n].ott_id = item.matches[1].ott_id

\* C4: a name sent to the genus tier whose genus was answered with a first
\* candidate of a rank outside the accepted ranks keeps no id and ends with
\* tier 'No Match Final - Genus Failed'.
C4_RankGateLabel ==
  (pc = "done" /\ LastCallIs("Genera")) =>
    \A k \in 1..Len(last_result.results) :
      LET item == last_result.results[k]
      IN (item.matches # <<>> /\ ~PassesRankGate(item.matches[1])) =>
           \A n \in Names \ matched2 :
             extract_genus(n) = item.name =>
               /\ all_results[n].ott_id = None
               /\ all_results[n].match_level = GenusFailed

\* C5: the returned table has one row per input row, in the input order, and
\* row r carries the record of the name in row r, or all-null columns when
\* that name has no record; rows with the same name so carry the same values.
C5_RowCardinality ==
  pc = "done" =>
    /\ Len(df_merged) = Len(df)
    /\ \A r \in 1..Len(df_merged) :
         /\ df_merged[r].row = r
         /\ df_merged[r].name = df[r]
         /\ df_merged[r].rec = IF df[r] \in DOMAIN all_results
                               THEN all_results[df[r]]
                               ELSE NullRecord

\* A returned table with two rows of the same name and a row of a missing
\* value.
C5_Witness ==
  /\ pc = "done"
  /\ \E r1, r2, r3 \in 1..Len(df) :
       /\ r1 # r2
       /\ df[r1] = df[r2]
       /\ df[r1] \in DOMAIN all_results
       /\ df[r3] \notin DOMAIN all_results

\* The input of the end-to-end scenario.
ScenarioTable ==
  <<QuercusAlbaL, QuercusAlbaL, FabaceaeIndet>>

\* The scenario: its table, the name column present, and every call answered
\* by the scripted service.
InScenario ==
  df = ScenarioTable /\ column_present /\ scripted

\* C6 as stated: in the scenario both 'Quercus alba L.' rows carry the same
\* 'Species - Cleaned' record, 'Fabaceae Indet.' carries a 'Genus' record of
\* rank family, and the summary is 'Species - Cleaned': 2, 'Genus': 1.
C6_EndToEnd ==
  (InScenario /\ pc = "done") =>
    /\ df_merged[1].rec = df_merged[2].rec
    /\ df_merged[1].rec.match_level = SpeciesCleaned
    /\ df_merged[1].rec.ott_id # None
    /\ df_merged[3].rec.match_level = Genus
    /\ df_merged[3].rec.rank = TaxFamily.rank
    /\ summary = (SpeciesCleaned :> 2 @@ Genus :> 1)

\* C6 amended: in the scenario the run reaches the merge; both
\* 'Quercus alba L.' rows carry the same 'Species - Cleaned' record with the
\* id of the 'Quercus alba' hit; 'Fabaceae Indet.' cleans to 'Fabaceae', so
\* it is the cleaned tier that gives it the family-rank hit, with tier
\* 'Species - Cleaned'; no genus call is made and the summary is
\* 'Species - Cleaned': 3.
C6_EndToEndCleaned ==
  InScenario =>
    /\ pc \notin {"config_error", "crashed", "no_results"}
    /\ CallsOf("Genera") = {}
    /\ pc = "done" =>
         /\ df_merged[1].rec = df_merged[2].rec
         /\ df_merged[1].rec.match_level = SpeciesCleaned
         /\ df_merged[1].rec.ott_id = TaxSpecies.ott_id
         /\ df_merged[1].rec.match_query = QuercusAlba
         /\ df_merged[3].rec.match_level = SpeciesCleaned
         /\ df_merged[3].rec.ott_id = TaxFamily.ott_id
         /\ df_merged[3].rec.rank = TaxFamily.rank
         /\ df_merged[3].rec.match_query = Fabaceae
         /\ summary = (SpeciesCleaned :> 3)

\* The scenario run at its end.
C6_Witness ==
  InScenario /\ pc = "done" /\ CallsOf("Cleaned") # {}

\* The tiers a record may carry in the returned table.
TerminalTiers ==
  {SpeciesOriginal, SpeciesCleaned, Genus, NoMatchFinal, GenusFailed,
   ProcessingError}

C8_TierIdConsistency ==
  \A n \in DOMAIN all_results :
    /\ all_results[n].match_level \in {SpeciesOriginal, SpeciesCleaned, Genus}
         => all_results[n].ott_id # None
    /\ all_results[n].match_level \in
         {NoMatchInitial, NoMatchFinal, GenusFailed, ProcessingError}
         => all_results[n].ott_id = None

TierRank(tier) ==
  CASE tier = "Original" -> 1 [] tier = "Cleaned" -> 2 [] tier = "Genera" -> 3

\* C9: a record of tier 'Species - Cleaned' belongs to a name that held no id
\* when step 1 ended, a record of tier 'Genus' to a name that held no id when
\* step 1 ended nor when step 2 ended; the calls are made in the order
\* original, cleaned, genus; a cleaned call is made only when every batch of
\* step 1 has been processed, a genus call only when step 2 has ended.
C9_TierOrdering ==
  /\ \A n \in DOMAIN all_results :
       /\ all_results[n].match_level = SpeciesCleaned
            => (AfterStep1 /\ n \notin matched1)
       /\ all_results[n].match_level = Genus
            => (pc \in {"finalize", "done"} /\ n \notin matched1 \cup matched2)
  /\ \A j, k \in 1..Len(calls) :
       j < k => TierRank(calls[j].tier) <= TierRank(calls[k].tier)
  /\ CallsOf("Cleaned") # {} =>
       (AfterStep1 /\ Cardinality(CallsOf("Original")) = Batches)
  /\ CallsOf("Genera") # {} => pc \in {"finalize", "done"}

\* A returned ledger with a name resolved by the cleaned tier and a name
\* resolved by the genus tier.
C9_Witness ==
  /\ pc = "done"
  /\ \E n, m \in Names :
       /\ all_results[n].match_level = SpeciesCleaned
       /\ all_results[n].ott_id # None
       /\ all_results[m].match_level = Genus
       /\ all_results[m].ott_id # None

\* C10: no call, of any tier, carries more than batch_size query strings.
C10_BatchCeiling ==
  \A k \in 1..Len(calls) : Len(calls[k].names) <= batch_size

\* The positions <<call, index>> of the query strings sent for one tier.
Sent(tier) ==
  UNION { { <<k, a>> : a \in 1..Len(calls[k].names) } : k \in CallsOf(tier) }

Tiers ==
  {"Original", "Cleaned", "Genera"}

\* C11: with K distinct usable names, each tier sends at most K query strings
\* over all its calls, and no string is sent twice within a tier, however
\* many rows repeat a name and however many names share a cleaned form or a
\* genus.
C11_Deduplication ==
  \A tier \in Tiers :
    /\ Cardinality(Sent(tier)) <= Len(unique_names)
    /\ \A p, q \in Sent(tier) :
         calls[p[1]].names[p[2]] = calls[q[1]].names[q[2]] => p = q

\* A finished run over a table that repeats a name, with two names that
\* share their cleaned form and their genus, both sent on to the cleaned and
\* the genus tier.
C11_Witness ==
  /\ pc = "done"
  /\ Len(df) > Len(unique_names)
  /\ Len(unique_names) = 2
  /\ clean_scientific_name(unique_names[1]) = clean_scientific_name(unique_names[2])
  /\ extract_genus(unique_names[1]) = extract_genus(unique_names[2])
  /\ matched2 = {}
  /\ Cardinality(Sent("Cleaned")) = 1
  /\ Cardinality(Sent("Genera")) = 1

\* C12: no call is made with an empty list of query strings; a cleaned call
\* is made only when some name left unmatched by step 1 has a usable cleaned
\* form that differs from it, and a genus call only when some name left
\* unmatched by step 2 has a genus; so a run whose names all got an id in
\* step 1 makes no cleaned call and no genus call.
C12_EmptyTierSkip ==
  /\ \A k \in 1..Len(calls) : calls[k].names # <<>>
  /\ (AfterStep1 /\ Names \subseteq matched1) =>
       (CallsOf("Cleaned") = {} /\ CallsOf("Genera") = {})
  /\ CallsOf("Cleaned") # {} =>
       \E n \in Names \ matched1 :
         Truthy(clean_scientific_name(n)) /\ clean_scientific_name(n) # n
  /\ CallsOf("Genera") # {} =>
       \E n \in Names \ matched2 : Truthy(extract_genus(n))

\* A finished run whose two names, one of them with an authority to strip,
\* all got an id in step 1: only tier 1 calls were made.
C12_Witness ==
  /\ pc = "done"
  /\ Len(unique_names) = 2
  /\ Names = matched1
  /\ \E n \in Names : clean_scientific_name(n) # n /\ Truthy(extract_genus(n))
  /\ calls # <<>>
  /\ CallsOf("Cleaned") = {}
  /\ CallsOf("Genera") = {}

\* C13: when the name column is absent, or no usable name is left once the
\* empty and missing values are filtered out, the run stops at the error: it
\* makes no call, writes no ledger record, and returns no table and no
\* summary.
C13_InvalidConfiguration ==
  /\ (pc # "start" /\ (~column_present \/ UniqueNames(df) = <<>>)) =>
       pc = "config_error"
  /\ pc = "config_error" =>
       /\ ~column_present \/ UniqueNames(df) = <<>>
       /\ calls = <<>>
       /\ DOMAIN all_results = {}
       /\ df_merged = <<>>
       /\ summary = <<>>

\* The run has stopped at the error on a table that has the column and rows,
\* all of them empty or missing values.
C13_Witness ==
  /\ pc = "config_error"
  /\ column_present
  /\ Len(df) = MaxRows
  /\ NanCell \in Range(df)
  /\ EmptyCell \in Range(df)

\* The step makes a call that comes back invalid (None, or a body without
\* 'results').
FailedCallStep ==
  /\ Len(calls') = Len(calls) + 1
  /\ ~calls'[Len(calls')].ok

\* C14: processing a failed or invalid response changes no record of the
\* ledger. A step of tier 1 or of the cleaned tier whose call fails leaves the
\* ledger as it was; the step of the genus tier whose call fails leaves it
\* exactly as the relabelling loop that ends step 3 leaves it when no call is
\* made.
C14_FailureLeavesLedger ==
  [][FailedCallStep =>
       all_results' = IF calls'[Len(calls')].tier = "Genera"
                      THEN Step3Relabel(failed_names, all_results)
                      ELSE all_results]_vars

\* The genus call has just failed in a run whose earlier calls committed a
\* record with an id and a placeholder.
C14_Witness ==
  /\ pc = "finalize"
  /\ Len(calls) >= 2
  /\ calls[Len(calls)].tier = "Genera"
  /\ ~calls[Len(calls)].ok
  /\ Matched(all_results) # {}
  /\ DOMAIN all_results # Matched(all_results)

\* C15: the distinct names are exactly the cells of the column that are
\* neither empty nor the missing marker, and no call of any tier sends an
\* empty string, the missing marker or None.
C15_MissingNeverQueried ==
  /\ \A n \in Names : n # EmptyCell /\ StrLower(n) # NanCell
  /\ pc \notin {"start", "config_error"} =>
       Names = Range(df) \ {EmptyCell, NanCell}
  /\ \A k \in 1..Len(calls) :
       \A a \in 1..Len(calls[k].names) :
         /\ Truthy(calls[k].names[a])
         /\ calls[k].names[a] # NanCell

\* A finished run over a table with an empty cell, a missing cell and one
\* name, which went through the three tiers.
C15_Witness ==
  /\ pc = "done"
  /\ NanCell \in Range(df)
  /\ EmptyCell \in Range(df)
  /\ \A tier \in Tiers : CallsOf(tier) # {}

\* The step makes the genus call and a usable body comes back.
GenusStep ==
  /\ Len(calls') = Len(calls) + 1
  /\ calls'[Len(calls')].tier = "Genera"
  /\ calls'[Len(calls')].ok

\* C16: when the first candidate returned for a genus passes the rank gate,
\* the genus step gives every name with that genus that was without an id
\* the record of that candidate (its id, its rank, the genus as match query)
\* with tier 'Genus', and leaves the record of every name with that genus
\* that already held an id as it was.
C16_GenusFanOut ==
  [][GenusStep =>
       \A k \in 1..Len(last_result'.results) :
         LET item == last_result'.results[k]
         IN (item.matches # <<>> /\ PassesRankGate(item.matches[1])) =>
              \A n \in Names :
                extract_genus(n) = item.name =>
                  IF all_results[n].ott_id = None
                  THEN all_results'[n] =
                         MatchRecord(item.matches[1], item.name, Genus)
                  ELSE all_results'[n] = all_results[n]]_vars

\* The genus call has given two names of the same genus the same candidate.
C16_Witness ==
  /\ pc = "finalize"
  /\ LastCallIs("Genera")
  /\ Len(unique_names) = 2
  /\ extract_genus(unique_names[1]) = extract_genus(unique_names[2])
  /\ \A n \in Names : /\ all_results[n].match_level = Genus
                      /\ all_results[n].ott_id = TaxFamily.ott_id

\* C17 as stated: the rank stored in every record with tier 'Genus' is one
\* of genus, family, order, class, phylum, kingdom.
C17_RankGateLiteral ==
  \A n \in DOMAIN all_results :
    all_results[n].match_level = Genus =>
      all_results[n].rank \in GenusTierRanks

\* C17: the rank stored in every record with tier 'Genus' is, once put in
\* lower case, one of genus, family, order, class, phylum, kingdom; and a
\* genus step whose first candidate for a genus has rank species leaves every
\* name of that genus that was without an id without an id.
C17_RankGate ==
  /\ [](\A n \in DOMAIN all_results :
          all_results[n].match_level = Genus =>
            /\ all_results[n].rank # NoneName
            /\ StrLower(all_results[n].rank) \in GenusTierRanks)
  /\ [][GenusStep =>
          \A k \in 1..Len(last_result'.results) :
            LET item == last_result'.results[k]
            IN (item.matches # <<>> /\
                StrLower(item.matches[1].rank) = <<"s","p","e","c","i","e","s">>) =>
                 \A n \in Names :
                   (extract_genus(n) = item.name /\ all_results[n].ott_id = None) =>
                     /\ all_results'[n].ott_id = None
                     /\ all_results'[n].match_level # Genus]_vars

\* The genus call has returned a species-rank first candidate for the genus
\* of one name and a candidate of an accepted rank for the genus of another.
C17_Witness ==
  /\ pc = "finalize"
  /\ LastCallIs("Genera")
  /\ \E k \in 1..Len(last_result.results) :
       /\ last_result.results[k].matches = <<TaxSpecies>>
       /\ \E n \in Names \ matched2 :
            /\ extract_genus(n) = last_result.results[k].name
            /\ all_results[n].ott_id = None
  /\ \E n \in Names : all_results[n].match_level = Genus

\* The string was sent in a call of the tier that got a usable body.
SentOk(tier, query) ==
  \E p \in Sent(tier) :
    calls[p[1]].ok /\ calls[p[1]].names[p[2]] = query

\* C18: the match query of every record with an id is the string sent to the
\* service in the call that produced the record: the name itself for tier
\* 'Species - Original', the cleaned name for 'Species - Cleaned', the genus
\* of the name for 'Genus'.
C18_MatchQueryProvenance ==
  \A n \in Matched(all_results) :
    LET rec == all_results[n]
    IN /\ rec.match_level = SpeciesOriginal =>
            (rec.match_query = n /\ SentOk("Original", rec.match_query))
       /\ rec.match_level = SpeciesCleaned =>
            /\ rec.match_query = clean_scientific_name(n)
            /\ SentOk("Cleaned", rec.match_query)
       /\ rec.match_level = Genus =>
            /\ rec.match_query = extract_genus(n)
            /\ SentOk("Genera", rec.match_query)

\* A returned ledger with an id found under a cleaned name and another found
\* under a genus, each match query differing from the name.
C18_Witness ==
  /\ pc = "done"
  /\ \E n \in Matched(all_results) :
       /\ all_results[n].match_level = SpeciesCleaned
       /\ all_results[n].match_query # n
  /\ \E n \in Matched(all_results) :
       /\ all_results[n].match_level = Genus
       /\ all_results[n].match_query # n

\* The tier of row r of the input table: that of the record of its name, or
\* None when its cell has no record.
RowTier(r) ==
  IF df[r] \in DOMAIN all_results
  THEN all_results[df[r]].match_level
  ELSE None

RECURSIVE SumCounts(_, _)
SumCounts(counts, S) ==
  IF S = {}
  THEN 0
  ELSE LET l == CHOOSE l \in S : TRUE
       IN counts[l] + SumCounts(counts, S \ {l})

\* C19: in a returned summary the counts, the null bucket included, add up to
\* the number of rows of the input table; the count of each tier is the
\* number of rows whose name has a record of that tier, the count of the null
\* bucket the number of rows without a record; and every tier that occurs has
\* a count.
C19_SummaryTotals ==
  pc = "done" =>
    /\ SumCounts(summary, DOMAIN summary) = Len(df)
    /\ \A l \in DOMAIN summary :
         summary[l] = Cardinality({ r \in 1..Len(df) : RowTier(r) = l })
    /\ \A r \in 1..Len(df) : RowTier(r) \in DOMAIN summary

\* A returned summary with a null bucket and a tier counted twice.
C19_Witness ==
  /\ pc = "done"
  /\ None \in DOMAIN summary
  /\ \E l \in DOMAIN summary : l # None /\ summary[l] >= 2

\* C20 as stated: whatever the service answers, the run never looks up in
\* the ledger a name that has no record: it never stops at the KeyError of
\* all_results[name], and every name still failed once step 2 has filtered
\* the list has a record.
C20_Completion ==
  /\ pc # "crashed"
  /\ \A k \in 1..Len(failed_names) : failed_names[k] \in DOMAIN all_results

====
